---- MODULE Spec2Model ----
(***************************************************************************)
(* Tech Jargon Buster (src/tech_jargon_buster.py): a Streamlit script that *)
(* gates a user-supplied term through a keyword check and then asks three  *)
(* hosted models (GPT-4.1, Mistral, Grok) to explain it, one after the     *)
(* other.  The script is modelled as a state machine whose program counter *)
(* walks the script top to bottom; every blocking provider exchange is     *)
(* split into the step that sends the request and the step that turns the  *)
(* provider's answer into the value the call returns.                      *)
(*                                                                         *)
(* Strings the script computes on (the input, the term, reply texts) are   *)
(* sequences of one-character strings.  Temperatures are counted in tenths *)
(* (the slider's step is 0.1), so 1.0 is 10 and 1.5 is 15.                 *)
(***************************************************************************)
EXTENDS Integers, Sequences, FiniteSets, TLC

VARIABLES
    env_key,            \* os.getenv("GITHUB_API_KEY") after load_dotenv()
    secrets,            \* what st.secrets holds for GITHUB_API_KEY
    pc,                 \* position of the running script
    user_input,         \* st.text_input value
    slider_temperature, \* st.slider value, in tenths
    submit,             \* st.button value
    term,               \* the term handed to the providers
    ui,                 \* elements rendered in this run, in order
    requests,           \* provider requests sent in this run, in order
    responses,          \* what each provider answered in this run, in order
    results             \* value returned by each provider call, in order

vars == <<env_key, secrets, pc, user_input, slider_temperature, submit, term,
          ui, requests, responses, results>>

-----------------------------------------------------------------------------
(* Bounds of the model *)

\* the input is a concatenation of at most MaxChunks pieces of InputChunks
MaxChunks == 2

-----------------------------------------------------------------------------
(* Program constants *)

IT_KEYWORDS ==
    << 
       <<"f","i","r","e","w","a","l","l">>, <<"r","o","u","t","e","r">>, <<"s","w","i","t","c","h">>,
       <<"v","p","n">>, <<"i","d","s">>, <<"i","p","s">>,
       <<"s","i","e","m">>, <<"s","o","a","r">>, <<"m","f","a">>,
       <<"s","s","o">>, <<"o","i","d","c">>, <<"s","a","m","l">>,
       <<"s","s","l">>, <<"t","l","s">>, <<"d","n","s">>,
       <<"d","h","c","p">>, <<"h","t","t","p">>, <<"h","t","t","p","s">>,
       <<"a","p","i">>, <<"s","d","k">>, <<"j","s","o","n">>,
       <<"x","m","l">>, <<"h","t","m","l">>, <<"c","s","s">>,
       <<"j","a","v","a","s","c","r","i","p","t">>, <<"p","y","t","h","o","n">>, <<"j","a","v","a">>,
       <<"c","+","+">>, <<"d","o","c","k","e","r">>, <<"k","u","b","e","r","n","e","t","e","s">>,
       <<"v","m","w","a","r","e">>, <<"h","y","p","e","r","v","i","s","o","r">>, <<"c","l","o","u","d">>,
       <<"a","w","s">>, <<"a","z","u","r","e">>, <<"g","c","p">>,
       <<"l","i","n","u","x">>, <<"w","i","n","d","o","w","s">>, <<"u","n","i","x">>,
       <<"k","e","r","n","e","l">>, <<"s","q","l">>, <<"n","o","s","q","l">>,
       <<"m","o","n","g","o","d","b">>, <<"p","o","s","t","g","r","e","s","q","l">>, <<"m","y","s","q","l">>,
       <<"s","s","h">>, <<"f","t","p">>, <<"s","m","t","p">>,
       <<"i","m","a","p">>, <<"o","a","u","t","h">>, <<"r","e","s","t">>
    >>

Marker == <<"T","E","R","M",":">>

SliderMin == 0
SliderMax == 15
MistralMinTemp == 0
MistralMaxTemp == 10

GPT == "GitHub Models GPT-4.1"
MISTRAL == "GitHub Models Mistral Small 3.1"
GROK == "GitHub Models xAI Grok-3"
Providers == <<GPT, MISTRAL, GROK>>

Whitespace == {" ", "\t", "\n"}

LowerMap ==
    "A" :> "a" @@ "B" :> "b" @@ "C" :> "c" @@ "D" :> "d" @@ "E" :> "e" @@
    "F" :> "f" @@ "G" :> "g" @@ "H" :> "h" @@ "I" :> "i" @@ "J" :> "j" @@
    "K" :> "k" @@ "L" :> "l" @@ "M" :> "m" @@ "N" :> "n" @@ "O" :> "o" @@
    "P" :> "p" @@ "Q" :> "q" @@ "R" :> "r" @@ "S" :> "s" @@ "T" :> "t" @@
    "U" :> "u" @@ "V" :> "v" @@ "W" :> "w" @@ "X" :> "x" @@ "Y" :> "y" @@
    "Z" :> "z"

-----------------------------------------------------------------------------
(* Python string operations, computed as the interpreter computes them *)

\* str.lower()
Lower(s) == [i \in 1..Len(s) |->
                IF s[i] \in DOMAIN LowerMap THEN LowerMap[s[i]] ELSE s[i]]

\* str.startswith(prefix)
StartsWith(s, prefix) ==
    /\ Len(s) >= Len(prefix)
    /\ SubSeq(s, 1, Len(prefix)) = prefix

RECURSIVE LStrip(_)
LStrip(s) ==
    IF s = <<>> THEN <<>>
    ELSE IF Head(s) \in Whitespace THEN LStrip(Tail(s)) ELSE s

RECURSIVE RStrip(_)
RStrip(s) ==
    IF s = <<>> THEN <<>>
    ELSE IF s[Len(s)] \in Whitespace THEN RStrip(SubSeq(s, 1, Len(s) - 1))
    ELSE s

\* str.strip()
Strip(s) == RStrip(LStrip(s))

\* str.replace(old, ""): every non-overlapping occurrence, left to right
RECURSIVE RemoveAll(_, _)
RemoveAll(s, old) ==
    IF s = <<>> THEN <<>>
    ELSE IF StartsWith(s, old)
         THEN RemoveAll(SubSeq(s, Len(old) + 1, Len(s)), old)
         ELSE <<Head(s)>> \o RemoveAll(Tail(s), old)

\* `word in s`: scan s for the first position where word matches
RECURSIVE Find(_, _)
Find(s, word) ==
    IF Len(s) < Len(word) THEN FALSE
    ELSE IF SubSeq(s, 1, Len(word)) = word THEN TRUE
    ELSE Find(Tail(s), word)

-----------------------------------------------------------------------------
(* Values a provider call returns and the page shows *)

Text(t) == [kind |-> "text", provider |-> "", cause |-> "", text |-> t]
ErrorString(p, c) == [kind |-> "error", provider |-> p, cause |-> c, text |-> <<>>]
None == [kind |-> "none", provider |-> "", cause |-> "", text |-> <<>>]

Element(el, v) == [el |-> el, val |-> v]
Static(el) == Element(el, None)

-----------------------------------------------------------------------------
(* Inputs of the model *)

InputChunks ==
    { Marker, <<"F","t","p">>, <<" ">>, <<"x">>, <<"m","l">> }

RECURSIVE Concat(_)
Concat(ss) == IF ss = <<>> THEN <<>> ELSE Head(ss) \o Concat(Tail(ss))

Inputs ==
    UNION { { Concat(f) : f \in [1..n -> InputChunks] } : n \in 0..MaxChunks }

ConnectionOK == <<"C","o","n","n","e","c","t","i","o","n"," ","O","K">>

\* reply texts a provider may put in choices[0].message.content
Replies == { ConnectionOK, <<" ">> \o ConnectionOK \o <<"\n">> }

Outcome(k, c) == [kind |-> k, content |-> c]

\* what a provider exchange can come to
Outcomes ==
    { Outcome("ok", c) : c \in Replies } \cup
    { Outcome(k, <<>>) :
        k \in {"network", "http401", "malformed", "empty_choices", "no_content"} }

Failed(o) == o.kind # "ok"

-----------------------------------------------------------------------------
(* Credential loading, lines 40-45 *)

\* os.getenv("GITHUB_API_KEY") or st.secrets.get("GITHUB_API_KEY")
GITHUB_API_KEY ==
    IF env_key = "set" THEN "set"
    ELSE IF secrets = "set" THEN "set" ELSE "missing"

\* LoadEnv with the st.stop() of line 45 left out
LoadEnv_NoStop ==
    /\ pc = "load"
    /\ pc' = "ui"
    /\ ui' = IF GITHUB_API_KEY = "set" THEN ui
             ELSE Append(ui, Static("error_missing_key"))
    /\ UNCHANGED <<env_key, secrets, user_input, slider_temperature, submit,
                   term, requests, responses, results>>

LoadEnv ==
    /\ pc = "load"
    /\ IF GITHUB_API_KEY = "set"
       THEN /\ pc' = "ui"
            /\ ui' = ui
       ELSE \* st.error + st.stop; with no secrets file the lookup itself
            \* may raise instead, which ends the run with the exception shown
            /\ pc' = "stopped"
            /\ \/ ui' = Append(ui, Static("error_missing_key"))
               \/ /\ secrets = "nofile"
                  /\ ui' = Append(ui, Static("exception"))
    /\ UNCHANGED <<env_key, secrets, user_input, slider_temperature, submit,
                   term, requests, responses, results>>

-----------------------------------------------------------------------------
(* Widgets, lines 65-91 *)

Widgets ==
    /\ pc = "ui"
    /\ \E inp \in Inputs, t \in SliderMin..SliderMax, b \in BOOLEAN :
          /\ user_input' = inp
          /\ slider_temperature' = t
          /\ submit' = b
    /\ ui' = ui \o <<Static("title"), Static("markdown"), Static("text_input"),
                     Static("slider"), Static("markdown"), Static("button")>>
    /\ pc' = "main"
    /\ UNCHANGED <<env_key, secrets, term, requests, responses, results>>

-----------------------------------------------------------------------------
(* Term classifier, lines 96-108 and 199-209 *)

\* is_it_term matching the keywords against the input as typed
is_it_term_NoLower(t) ==
    \E k \in 1..Len(IT_KEYWORDS) : Find(t, IT_KEYWORDS[k])

is_it_term(t) ==
    LET term_lower == Lower(t)
    IN  \E k \in 1..Len(IT_KEYWORDS) : Find(term_lower, IT_KEYWORDS[k])

\* line 202
OverrideTerm(inp) == Strip(RemoveAll(inp, Marker))

\* line 207
PlainTerm(inp) == Strip(inp)

\* MainLogic with the st.stop() of line 206 left out
MainLogic_NoStop ==
    /\ pc = "main"
    /\ IF ~submit
       THEN /\ pc' = "done"
            /\ UNCHANGED <<term, ui>>
       ELSE IF StartsWith(user_input, Marker)
       THEN /\ term' = Strip(RemoveAll(user_input, Marker))
            /\ ui' = Append(ui, Element("header", Text(term')))
            /\ pc' = "gpt_send"
       ELSE /\ term' = Strip(user_input)
            /\ ui' = IF ~is_it_term(user_input)
                     THEN ui \o <<Static("warning_not_it_term"),
                                  Element("header", Text(term'))>>
                     ELSE Append(ui, Element("header", Text(term')))
            /\ pc' = "gpt_send"
    /\ UNCHANGED <<env_key, secrets, user_input, slider_temperature, submit,
                   requests, responses, results>>

MainLogic ==
    /\ pc = "main"
    /\ IF ~submit
       THEN /\ pc' = "done"
            /\ UNCHANGED <<term, ui>>
       ELSE IF StartsWith(user_input, Marker)
       THEN /\ term' = OverrideTerm(user_input)
            /\ ui' = Append(ui, Element("header", Text(term')))
            /\ pc' = "gpt_send"
       ELSE IF ~is_it_term(user_input)
       THEN /\ ui' = Append(ui, Static("warning_not_it_term"))
            /\ pc' = "stopped"
            /\ UNCHANGED term
       ELSE /\ term' = PlainTerm(user_input)
            /\ ui' = Append(ui, Element("header", Text(term')))
            /\ pc' = "gpt_send"
    /\ UNCHANGED <<env_key, secrets, user_input, slider_temperature, submit,
                   requests, responses, results>>

-----------------------------------------------------------------------------
(* Provider connectors, lines 113-194 *)

Request(p, t, temp) == [provider |-> p, term |-> t, temperature |-> temp]
Response(p, o) == [provider |-> p, outcome |-> o]
Result(p, v) == [provider |-> p, value |-> v]

Min(a, b) == IF a < b THEN a ELSE b
Max(a, b) == IF a > b THEN a ELSE b

\* payload of call_github_gpt, lines 119-126
call_github_gpt_payload(t, temperature) == Request(GPT, t, temperature)

\* lines 127-132: raise_for_status, json(), ["choices"][0]["message"]["content"].strip()
call_github_gpt_return(o) ==
    CASE o.kind = "ok"            -> Text(Strip(o.content))
      [] o.kind = "network"       -> ErrorString(GPT, "ConnectionError")
      [] o.kind = "http401"       -> ErrorString(GPT, "401 Client Error: Unauthorized")
      [] o.kind = "malformed"     -> ErrorString(GPT, "JSONDecodeError")
      [] o.kind = "empty_choices" -> ErrorString(GPT, "list index out of range")
      [] o.kind = "no_content"    -> ErrorString(GPT, "'content'")

\* safe_temp without the cap
safe_temp_NoClamp(temperature) == temperature

\* line 142
safe_temp(temperature) == Min(Max(temperature, MistralMinTemp), MistralMaxTemp)

\* line 145
MistralAdvisory(temperature) == temperature > MistralMaxTemp

\* request of call_github_mistral, lines 153-162
call_github_mistral_request(t, temperature) ==
    Request(MISTRAL, t, safe_temp(temperature))

\* call_grok sending the capped temperature of the Mistral connector
call_grok_request_Clamped(t, temperature) ==
    [provider |-> GROK, term |-> t,
     temperature |-> IF temperature > MistralMaxTemp THEN MistralMaxTemp
                     ELSE temperature]

\* request of call_grok, lines 180-189
call_grok_request(t, temperature) == Request(GROK, t, temperature)

\* lines 164-167 and 191-194: response.choices[0].message.content, as it is;
\* a message without content reads as None and nothing is raised
sdk_return(p, o) ==
    CASE o.kind = "ok"            -> Text(o.content)
      [] o.kind = "network"       -> ErrorString(p, "ServiceRequestError")
      [] o.kind = "http401"       -> ErrorString(p, "(unauthorized) Unauthorized")
      [] o.kind = "malformed"     -> ErrorString(p, "DecodeError")
      [] o.kind = "empty_choices" -> ErrorString(p, "list index out of range")
      [] o.kind = "no_content"    -> None

call_github_mistral_return(o) == sdk_return(MISTRAL, o)
call_grok_return(o) == sdk_return(GROK, o)

Frame == UNCHANGED <<env_key, secrets, user_input, slider_temperature, submit, term>>

\* lines 217-219, up to the POST
GptSend ==
    /\ pc = "gpt_send"
    /\ ui' = Append(ui, Static("subheader_gpt"))
    /\ requests' = Append(requests, call_github_gpt_payload(term, slider_temperature))
    /\ pc' = "gpt_recv"
    /\ UNCHANGED <<responses, results>>
    /\ Frame

\* GptRecv posting once more after a failed exchange
GptRecv_Retry ==
    /\ pc = "gpt_recv"
    /\ \E o \in Outcomes :
          IF Failed(o) /\ Len(requests) < 2
          THEN /\ requests' = Append(requests,
                                call_github_gpt_payload(term, slider_temperature))
               /\ UNCHANGED <<responses, results, ui, pc>>
          ELSE /\ responses' = Append(responses, Response(GPT, o))
               /\ results' = Append(results, Result(GPT, call_github_gpt_return(o)))
               /\ ui' = Append(ui, Element("write", call_github_gpt_return(o)))
               /\ pc' = "mistral_send"
               /\ UNCHANGED requests
    /\ Frame

\* lines 128-132 and the st.write of line 219
GptRecv ==
    /\ pc = "gpt_recv"
    /\ \E o \in Outcomes :
          /\ responses' = Append(responses, Response(GPT, o))
          /\ results' = Append(results, Result(GPT, call_github_gpt_return(o)))
          /\ ui' = Append(ui, Element("write", call_github_gpt_return(o)))
    /\ pc' = "mistral_send"
    /\ UNCHANGED requests
    /\ Frame

\* lines 221-223, up to client.complete
MistralSend ==
    /\ pc = "mistral_send"
    /\ ui' = IF MistralAdvisory(slider_temperature)
             THEN ui \o <<Static("subheader_mistral"), Static("info_mistral_adjusted")>>
             ELSE Append(ui, Static("subheader_mistral"))
    /\ requests' = Append(requests,
                          call_github_mistral_request(term, slider_temperature))
    /\ pc' = "mistral_recv"
    /\ UNCHANGED <<responses, results>>
    /\ Frame

\* lines 164-167 and the st.write of line 223
MistralRecv ==
    /\ pc = "mistral_recv"
    /\ \E o \in Outcomes :
          /\ responses' = Append(responses, Response(MISTRAL, o))
          /\ results' = Append(results, Result(MISTRAL, call_github_mistral_return(o)))
          /\ ui' = Append(ui, Element("write", call_github_mistral_return(o)))
    /\ pc' = "grok_send"
    /\ UNCHANGED requests
    /\ Frame

\* lines 225-227, up to client.complete
GrokSend ==
    /\ pc = "grok_send"
    /\ ui' = Append(ui, Static("subheader_grok"))
    /\ requests' = Append(requests, call_grok_request(term, slider_temperature))
    /\ pc' = "grok_recv"
    /\ UNCHANGED <<responses, results>>
    /\ Frame

\* lines 191-194 and the st.write of line 227
GrokRecv ==
    /\ pc = "grok_recv"
    /\ \E o \in Outcomes :
          /\ responses' = Append(responses, Response(GROK, o))
          /\ results' = Append(results, Result(GROK, call_grok_return(o)))
          /\ ui' = Append(ui, Element("write", call_grok_return(o)))
    /\ pc' = "done"
    /\ UNCHANGED requests
    /\ Frame

-----------------------------------------------------------------------------
(* The script as Streamlit runs it *)

\* any interaction with the page runs the script again from the top
Rerun ==
    /\ pc \in {"done", "stopped"}
    /\ pc' = "load"
    /\ user_input' = <<>>
    /\ slider_temperature' = 4
    /\ submit' = FALSE
    /\ term' = <<>>
    /\ ui' = <<>>
    /\ requests' = <<>>
    /\ responses' = <<>>
    /\ results' = <<>>
    /\ UNCHANGED <<env_key, secrets>>

Init ==
    /\ env_key \in {"unset", "empty", "set"}
    /\ secrets \in {"nofile", "absent", "set"}
    /\ pc = "load"
    /\ user_input = <<>>
    /\ slider_temperature = 4
    /\ submit = FALSE
    /\ term = <<>>
    /\ ui = <<>>
    /\ requests = <<>>
    /\ responses = <<>>
    /\ results = <<>>

Next ==
    \/ LoadEnv
    \/ Widgets
    \/ MainLogic
    \/ GptSend
    \/ GptRecv
    \/ MistralSend
    \/ MistralRecv
    \/ GrokSend
    \/ GrokRecv
    \/ Rerun

Spec == Init /\ [][Next]_vars

-----------------------------------------------------------------------------
(* Vocabulary of the properties *)

\* the classifier has acted on a submission in this run
Classified == submit /\ pc \notin {"load", "ui", "main"}

Accepted == Classified /\ pc # "stopped"

Shown(el) == \E i \in DOMAIN ui : ui[i].el = el

KeywordSet == { IT_KEYWORDS[k] : k \in DOMAIN IT_KEYWORDS }

\* s with its capital letters folded to small ones
Folded(s) == [i \in DOMAIN s |->
                 IF s[i] \in DOMAIN LowerMap THEN LowerMap[s[i]] ELSE s[i]]

\* some stretch of s is a keyword, whatever the case of its letters
HasKeyword(s) ==
    LET low == Folded(s)
    IN  \E i \in 1..Len(s) : \E j \in i..Len(s) : SubSeq(low, i, j) \in KeywordSet

\* t is s without the whitespace around it
IsTrimOf(t, s) ==
    /\ t = <<>> \/ (t[1] \notin Whitespace /\ t[Len(t)] \notin Whitespace)
    /\ \E i \in 0..Len(s) :
          /\ i + Len(t) <= Len(s)
          /\ \A j \in 1..Len(t) : s[i + j] = t[j]
          /\ \A j \in 1..i : s[j] \in Whitespace
          /\ \A j \in (i + Len(t) + 1)..Len(s) : s[j] \in Whitespace

\* s from its n+1-th character on
Drop(s, n) == [i \in 1..(Len(s) - n) |-> s[i + n]]

NumResponses(P(_)) == Cardinality({i \in DOMAIN responses : P(responses[i].outcome)})
NumResults(k) == Cardinality({i \in DOMAIN results : results[i].value.kind = k})

IsOk(o) == o.kind = "ok"

-----------------------------------------------------------------------------
(* Properties *)

\* C1: an input that begins with TERM: is accepted whatever it holds, and
\* the term is the input without that leading marker, trimmed; later
\* occurrences of TERM: stay in the term.
C1_OverrideKeepsRest ==
    (Classified /\ StartsWith(user_input, Marker)) =>
        /\ pc # "stopped"
        /\ IsTrimOf(term, Drop(user_input, Len(Marker)))

\* C2: an input that does not begin with TERM: is accepted exactly when its
\* lowercased form holds a keyword; the term is then the input as typed,
\* trimmed; the empty input is rejected.
C2_KeywordGate ==
    (Classified /\ ~StartsWith(user_input, Marker)) =>
        /\ Accepted <=> HasKeyword(user_input)
        /\ Accepted => IsTrimOf(term, user_input)
        /\ user_input = <<>> => ~Accepted

C2_Witness ==
    /\ Accepted
    /\ user_input = <<" ", "F", "t", "p">>
    /\ term = <<"F", "t", "p">>

\* C3: a rejected submission shows the warning and ends the run with no
\* provider call at all.
C3_RejectedNoProviderCall ==
    (Classified /\ ~StartsWith(user_input, Marker) /\ ~HasKeyword(user_input)) =>
        /\ pc = "stopped"
        /\ Shown("warning_not_it_term")
        /\ requests = <<>>
        /\ responses = <<>>
        /\ results = <<>>

C3_Witness ==
    /\ Classified
    /\ user_input = <<"x", " ">>
    /\ pc = "stopped"
    /\ Shown("warning_not_it_term")

\* C4: a finished accepted submission has one displayed result per provider,
\* in which every failed exchange shows as a failure result and every
\* successful one as a successful result, whatever the other providers did.
C4_OneResultPerProvider ==
    (Accepted /\ pc = "done") =>
        /\ Len(results) = Len(Providers)
        /\ \A i \in DOMAIN results :
              /\ results[i].provider = Providers[i]
              /\ \E j \in DOMAIN ui : ui[j] = Element("write", results[i].value)
        /\ NumResults("error") = NumResponses(Failed)
        /\ NumResults("text") = NumResponses(IsOk)

\* C5: every failed provider exchange comes back as a failure string that
\* names the provider and the cause; a result is a reply text or such a
\* failure string.
C5_FailureIsErrorString ==
    \A i \in DOMAIN results :
        /\ results[i].value.kind \in {"text", "error"}
        /\ Failed(responses[i].outcome) =>
              /\ results[i].value.kind = "error"
              /\ results[i].value.provider = results[i].provider
              /\ results[i].value.cause # ""

\* C6: Mistral is sent the slider temperature capped to [0.0, 1.0]; the
\* advisory is shown exactly when the value sent differs from the slider's,
\* that is above 1.0, and the call still returns the provider's reply.
C6_MistralClamp ==
    /\ (\A i \in DOMAIN requests : requests[i].provider # MISTRAL) =>
           ~Shown("info_mistral_adjusted")
    /\ \A i \in DOMAIN requests :
          requests[i].provider = MISTRAL =>
              /\ requests[i].temperature =
                    (IF slider_temperature < 0 THEN 0
                     ELSE IF slider_temperature > 10 THEN 10
                     ELSE slider_temperature)
              /\ Shown("info_mistral_adjusted") <=>
                    requests[i].temperature # slider_temperature
              /\ Shown("info_mistral_adjusted") <=> slider_temperature > 10
    /\ \A i \in DOMAIN results :
          (results[i].provider = MISTRAL /\ IsOk(responses[i].outcome)) =>
              results[i].value = Text(responses[i].outcome.content)

C6_Witness ==
    /\ slider_temperature = 14
    /\ Len(requests) >= 2
    /\ requests[2] = Request(MISTRAL, term, 10)
    /\ Shown("info_mistral_adjusted")
    /\ Len(results) >= 2
    /\ results[2].value = Text(ConnectionOK)

\* C7: a successful exchange returns the first candidate's message text
\* trimmed, for each of the three providers.
C7_ReplyTrimmed ==
    \A i \in DOMAIN results :
        IsOk(responses[i].outcome) =>
            /\ results[i].value.kind = "text"
            /\ IsTrimOf(results[i].value.text, responses[i].outcome.content)

\* C8: without GITHUB_API_KEY the run reports an error and halts before any
\* widget, classification or provider call.
C8_MissingKeyHalts ==
    (env_key # "set" /\ secrets # "set") =>
        /\ pc \in {"load", "stopped"}
        /\ pc = "stopped" => (Shown("error_missing_key") \/ Shown("exception"))
        /\ ~Shown("text_input") /\ ~Shown("slider") /\ ~Shown("button")
        /\ ~Shown("warning_not_it_term") /\ ~Shown("header")
        /\ ~submit
        /\ requests = <<>>
        /\ results = <<>>

C8_Witness ==
    /\ env_key = "empty"
    /\ secrets = "absent"
    /\ pc = "stopped"
    /\ Shown("error_missing_key")

\* C9: in one submission each provider is sent at most one request, failed
\* or not, in the order GPT-4.1, Mistral, Grok, and a request goes out only
\* once the previous provider's result is there.
C9_SequentialNoRetry ==
    /\ Len(requests) <= Len(Providers)
    /\ \A i \in DOMAIN requests : requests[i].provider = Providers[i]
    /\ \A i \in DOMAIN results : results[i].provider = Providers[i]
    /\ Len(results) <= Len(requests)
    /\ Len(requests) <= Len(results) + 1

C9_Witness ==
    /\ pc = "done"
    /\ Len(requests) = 3
    /\ \A i \in DOMAIN responses : Failed(responses[i].outcome)

\* C10: the three providers are sent the same term, the classifier's, and
\* GPT-4.1 and Grok are sent the slider temperature as it is, above 1.0 too.
C10_SameTermOwnTemperature ==
    \A i \in DOMAIN requests :
        /\ requests[i].term = term
        /\ requests[i].provider \in {GPT, GROK} =>
               requests[i].temperature = slider_temperature

C10_Witness ==
    /\ pc = "done"
    /\ slider_temperature = 15
    /\ requests = <<Request(GPT, term, 15), Request(MISTRAL, term, 10),
                    Request(GROK, term, 15)>>
    /\ Shown("info_mistral_adjusted")

====
